---- MODULE Spec2Model ----
(***************************************************************************)
(* readConfigFile of src/utils.ts: the resolver of the emulator's          *)
(* build/deploy configuration from a GitHub workflow file and the caller's *)
(* overrides.                                                              *)
(*                                                                         *)
(* Strings are sequences of chunks: a chunk stands for a run of            *)
(* characters that the code never looks into ("proj", ".yml"), "/" is the  *)
(* POSIX path separator, "." and ".." are one and two dots. String         *)
(* operations (includes, endsWith, path.join, path.normalize,              *)
(* path.resolve) are computed on the chunks the way Node computes them on  *)
(* characters.                                                             *)
(*                                                                         *)
(* The workflow file is given by the document YAML.parse yields for it. A  *)
(* document is empty, a scalar, or a mapping; along                        *)
(* jobs.build_and_deploy_job.steps[].with every node is absent, empty      *)
(* (null) or of the type the workflow format gives it: `steps` a sequence  *)
(* of mappings, `uses` and the fields of `with` strings.                   *)
(*                                                                         *)
(* readConfigFile is one synchronous call: pc walks through its            *)
(* statements, and every behaviour is one call on one environment (the     *)
(* file system, the runtime detector's classification, the argument).      *)
(***************************************************************************)
EXTENDS Integers, Sequences, FiniteSets, TLC

\* ------------------------------------------------------------- strings

Last(s) == s[Len(s)]

Front(s) == SubSeq(s, 1, Len(s) - 1)

Range(s) == {s[i] : i \in 1..Len(s)}

\* String.prototype.includes(marker), for a marker that is one chunk.
Includes(s, marker) == \E i \in 1..Len(s) : s[i] = marker

\* String.prototype.endsWith(suffix), for a suffix that is one chunk.
EndsWith(s, suffix) == Len(s) > 0 /\ Last(s) = suffix

\* JavaScript truthiness of a string: the empty string is falsy.
Truthy(s) == Len(s) > 0

\* ---------------------------------------------------------------- path

sep == "/"

\* The segments of a path: the runs of chunks between separators, the
\* empty ones (two separators in a row, a leading or trailing one) included.
RECURSIVE Segments(_)
Segments(p) ==
  IF \A i \in 1..Len(p) : p[i] # sep THEN <<p>>
  ELSE LET k == CHOOSE i \in 1..Len(p) : p[i] = sep /\ \A j \in 1..(i - 1) : p[j] # sep
       IN  <<SubSeq(p, 1, k - 1)>> \o Segments(SubSeq(p, k + 1, Len(p)))

\* The dots of a segment as normalizeString counts them: the number of "."
\* characters when the segment holds nothing else, -1 otherwise.
RECURSIVE Dots(_)
Dots(seg) ==
  IF seg = <<>> THEN 0
  ELSE LET d == IF seg[1] = "." THEN 1 ELSE IF seg[1] = ".." THEN 2 ELSE -1
           r == Dots(Tail(seg))
       IN  IF d = -1 \/ r = -1 THEN -1 ELSE d + r

\* One segment of normalizeString: empty and "." segments are dropped, ".."
\* removes the segment before it unless there is none or it is ".." itself,
\* and is then kept only above a relative root.
NormStep(res, seg, allowAboveRoot) ==
  IF seg = <<>> \/ Dots(seg) = 1 THEN res
  ELSE IF Dots(seg) = 2
       THEN IF res # <<>> /\ Last(res) # <<"..">> THEN Front(res)
            ELSE IF allowAboveRoot THEN Append(res, <<"..">>) ELSE res
       ELSE Append(res, seg)

RECURSIVE NormFold(_, _, _)
NormFold(res, segs, allowAboveRoot) ==
  IF segs = <<>> THEN res
  ELSE NormFold(NormStep(res, Head(segs), allowAboveRoot), Tail(segs), allowAboveRoot)

\* The kept segments written back with one separator between them.
RECURSIVE Glue(_)
Glue(segs) ==
  IF segs = <<>> THEN <<>>
  ELSE IF Len(segs) = 1 THEN segs[1]
  ELSE segs[1] \o <<sep>> \o Glue(Tail(segs))

normalizeString(p, allowAboveRoot) == Glue(NormFold(<<>>, Segments(p), allowAboveRoot))

isAbsolute(p) == Len(p) > 0 /\ p[1] = sep

\* path.normalize (POSIX): "." for the empty path, a trailing separator is
\* kept, the root stays the root.
normalize(p) ==
  IF Len(p) = 0 THEN <<".">>
  ELSE LET abs == isAbsolute(p)
           trailing == Last(p) = sep
           body == normalizeString(p, ~abs)
       IN  IF body = <<>>
           THEN (IF abs THEN <<sep>> ELSE IF trailing THEN <<".", sep>> ELSE <<".">>)
           ELSE (IF abs THEN <<sep>> ELSE <<>>) \o body
                \o (IF trailing THEN <<sep>> ELSE <<>>)

\* path.join: the non-empty arguments with a separator between them,
\* normalized; "." when nothing is left.
RECURSIVE Joined(_)
Joined(parts) ==
  IF parts = <<>> THEN <<>>
  ELSE LET rest == Joined(Tail(parts))
       IN  IF Len(Head(parts)) = 0 THEN rest
           ELSE IF rest = <<>> THEN Head(parts)
           ELSE Head(parts) \o <<sep>> \o rest

join(parts) == IF Joined(parts) = <<>> THEN <<".">> ELSE normalize(Joined(parts))

\* path.resolve(base, p) for an absolute base: p itself when it is
\* absolute, base/p otherwise; normalized, without a trailing separator.
resolve(base, p) ==
  LET full == IF isAbsolute(p) THEN p ELSE IF Len(p) = 0 THEN base ELSE base \o <<sep>> \o p
  IN  <<sep>> \o normalizeString(full, FALSE)

\* -------------------------------------------------------------- values

\* An optional string: undefined, or a string (the empty one included).
Undef == [def |-> FALSE, s |-> <<>>]

Str(s) == [def |-> TRUE, s |-> s]

\* Partial<GithubActionSWAConfig>: every field optional.
PartialConfig(appBuild, apiBuild, app, api, artifact) ==
  [appBuildCommand |-> appBuild, apiBuildCommand |-> apiBuild, appLocation |-> app,
   apiLocation |-> api, appArtifactLocation |-> artifact]

NoFields == PartialConfig(Undef, Undef, Undef, Undef, Undef)

\* A value that is a configuration record or undefined: the overrideConfig
\* argument, and what readConfigFile returns.
Undefined == [def |-> FALSE, v |-> NoFields]

Given(c) == [def |-> TRUE, v |-> c]

\* The `with` mapping of a step, in the workflow file's snake case.
WithBlock(appBuild, apiBuild, app, artifact, api) ==
  [app_build_command |-> appBuild, api_build_command |-> apiBuild, app_location |-> app,
   app_artifact_location |-> artifact, api_location |-> api]

EmptyWith == WithBlock(Undef, Undef, Undef, Undef, Undef)

\* A node of the parsed document is absent ("undef"), empty ("null") or
\* present with the type the workflow format gives it.
NoWith == [kind |-> "undef", v |-> EmptyWith]

NullWith == [kind |-> "null", v |-> EmptyWith]

WithMap(w) == [kind |-> "map", v |-> w]

Step(uses, with) == [uses |-> uses, with |-> with]

NoStep == [def |-> FALSE, step |-> Step(Undef, NoWith)]

\* The parsed document, flattened along jobs.build_and_deploy_job.steps: a
\* node below an absent or empty one is absent.
Doc(top, jobs, job, steps, list) ==
  [top |-> top, jobs |-> jobs, job |-> job, steps |-> steps, list |-> list]

UnsetDoc == Doc("unset", "undef", "undef", "undef", <<>>)

WorkflowDoc(list) == Doc("map", "map", "map", "seq", list)

\* JavaScript truthiness of a node: undefined and null are falsy, a
\* mapping, a sequence (the empty one too) and a non-empty scalar are truthy.
TruthyNode(kind) == kind \in {"map", "seq", "scalar"}

NoError == [msg |-> "", file |-> <<>>]

\* ------------------------------------------------------------- bounds

\* The longest directory listing and the longest `steps` sequence.
MaxFiles == 2

MaxSteps == 2

\* ---------------------------------------------------------- environment

\* process.cwd()
cwd == <<sep, "proj">>

swaMarker == "azure-static-web-apps"

deployMarker == "static-web-apps-deploy"

fileA == <<swaMarker, "-a", ".yml">>

fileB == <<"my-", swaMarker, ".yml">>

fileCi == <<"ci", ".yml">>

fileBak == <<swaMarker, ".yml", ".bak">>

FileNames == {fileA, fileB, fileCi, fileBak}

usesDeploy == <<"Azure/", deployMarker, "@v0.0.1-preview">>

usesCheckout == <<"actions/checkout@v2">>

\* The sequences over S of length at most n, without repetition.
RECURSIVE DistinctSeqs(_, _)
DistinctSeqs(S, n) ==
  IF n = 0 THEN {<<>>}
  ELSE LET shorter == DistinctSeqs(S, n - 1)
       IN  shorter \cup UNION {{Append(q, x) : x \in S \ Range(q)} :
                                  q \in {r \in shorter : Len(r) = n - 1}}

RECURSIVE SeqsUpTo(_, _)
SeqsUpTo(S, n) ==
  IF n = 0 THEN {<<>>}
  ELSE LET shorter == SeqsUpTo(S, n - 1)
       IN  shorter \cup {Append(q, x) : q \in {r \in shorter : Len(r) = n - 1}, x \in S}

AppLocations ==
  {Undef, Str(<<>>), Str(<<"client">>), Str(<<sep>>), Str(<<"..", sep, "up", sep>>)}

ApiLocations == {Undef, Str(<<>>), Str(<<"server">>)}

ArtifactLocations == {Undef, Str(<<>>), Str(<<"dist">>), Str(<<"..", sep, "out">>)}

AppBuildCommands == {Undef, Str(<<>>), Str(<<"yarn build">>)}

ApiBuildCommands == {Undef, Str(<<"dotnet build">>)}

AllWiths ==
  {WithBlock(a, b, c, d, e) : a \in AppBuildCommands, b \in ApiBuildCommands,
                              c \in AppLocations, d \in ArtifactLocations, e \in ApiLocations}

withClient == WithBlock(Undef, Undef, Str(<<"client">>), Undef, Str(<<"server">>))

withFull ==
  WithBlock(Str(<<"yarn build">>), Str(<<"dotnet build">>), Str(<<"client">>),
            Str(<<"dist">>), Str(<<"server">>))

withOther == WithBlock(Undef, Undef, Str(<<"other">>), Undef, Undef)

SomeWiths == {EmptyWith, withClient, withFull}

AllOverrides ==
  {Undefined} \cup
  {Given(PartialConfig(a, Undef, c, d, e)) :
     a \in {Undef, Str(<<"make">>)}, c \in {Undef, Str(<<>>), Str(<<"app">>)},
     d \in {Undef, Str(<<>>), Str(<<"fn", sep>>)}, e \in {Undef, Str(<<>>), Str(<<"www">>)}}

overrideApp == Given(PartialConfig(Undef, Undef, Str(<<"app">>), Undef, Undef))

overrideAll ==
  Given(PartialConfig(Str(<<"make">>), Undef, Str(<<"app">>), Str(<<"fn", sep>>), Str(<<"www">>)))

SomeOverrides == {Undefined, overrideApp, overrideAll}

\* The app roots the runtime detector may classify as .NET.
DotnetChoices ==
  {{}, {<<sep, "proj", sep, "client">>}, {<<sep, "proj", sep, "app">>},
   {join(<<cwd, IF c.def THEN c.s ELSE <<sep>>>>) : c \in AppLocations} \cup {<<sep, "proj", sep, "app">>}}

Steps ==
  {Step(u, w) : u \in {Undef, Str(usesCheckout), Str(usesDeploy)},
                w \in {NoWith, NullWith, WithMap(EmptyWith), WithMap(withClient)}}

\* Documents that differ in structure: every node of the path absent or
\* empty in turn, a scalar or empty document, and every `steps` sequence
\* of at most MaxSteps steps.
StructDocs ==
  {Doc("null", "undef", "undef", "undef", <<>>), Doc("scalar", "undef", "undef", "undef", <<>>),
   Doc("map", "undef", "undef", "undef", <<>>), Doc("map", "null", "undef", "undef", <<>>),
   Doc("map", "map", "undef", "undef", <<>>), Doc("map", "map", "null", "undef", <<>>),
   Doc("map", "map", "map", "undef", <<>>), Doc("map", "map", "map", "null", <<>>)}
  \cup {WorkflowDoc(l) : l \in SeqsUpTo(Steps, MaxSteps)}

OneStepDoc(w) == WorkflowDoc(<<Step(Str(usesDeploy), WithMap(w))>>)

\* Every file holding the same document.
SameContent(doc) == [n \in FileNames |-> doc]

\* Every file holding its own document, so that the result tells which file
\* was read.
OwnContent ==
  [n \in FileNames |->
     IF n = fileA THEN OneStepDoc(withClient)
     ELSE IF n = fileB THEN OneStepDoc(withOther)
     ELSE IF n = fileCi THEN Doc("map", "map", "undef", "undef", <<>>)
     ELSE Doc("null", "undef", "undef", "undef", <<>>)]

Env(folderExists, listing, cwdFiles, content, dotnet, override) ==
  [folderExists |-> folderExists, listing |-> listing, cwdFiles |-> cwdFiles,
   content |-> content, dotnet |-> dotnet, override |-> override]

\* The environments explored: one family per stage of the resolution, each
\* varying what that stage reads and holding the rest to a few values.
LocateEnvs ==
  {Env(FALSE, <<>>, c, OwnContent, {}, o) : c \in SUBSET {fileA, fileB, fileCi}, o \in SomeOverrides}
  \cup {Env(TRUE, l, c, OwnContent, {}, o) :
          l \in DistinctSeqs(FileNames, MaxFiles), c \in SUBSET {fileA, fileB, fileCi},
          o \in SomeOverrides}

ParseEnvs ==
  {Env(TRUE, <<fileCi, fileA>>, {}, SameContent(d), {}, o) : d \in StructDocs, o \in {Undefined, overrideAll}}

ResolveEnvs ==
  {Env(TRUE, <<fileA>>, {}, SameContent(OneStepDoc(w)), r, o) :
     w \in AllWiths, r \in DotnetChoices, o \in SomeOverrides}
  \cup {Env(TRUE, <<fileA>>, {}, SameContent(OneStepDoc(w)), r, o) :
          w \in SomeWiths, r \in DotnetChoices, o \in AllOverrides}

Envs == LocateEnvs \cup ParseEnvs \cup ResolveEnvs

\* ---------------------------------------------------------------- state

VARIABLES
  fs,                     \* the file system: the workflow folder, its listing, cwd's files, file contents
  dotnetRoots,            \* the app roots the runtime detector classifies as .NET
  overrideConfig,         \* the argument of readConfigFile
  pc,                     \* the statement readConfigFile is at
  githubActionFile,
  swaYaml,
  swaBuildConfig,
  app_build_command,
  api_build_command,
  app_location,
  api_location,
  app_artifact_location,
  detectedRuntimeType,
  retval,                 \* the value returned
  thrown,                 \* the error thrown
  warnings,               \* console.warn
  infos,                  \* console.info
  reads                   \* the paths given to fs.readFileSync

envVars == <<fs, dotnetRoots, overrideConfig>>

fileVars == <<githubActionFile, reads>>

yamlVars == <<swaYaml, swaBuildConfig>>

commandVars == <<app_build_command, api_build_command>>

locationVars == <<app_location, api_location, app_artifact_location, detectedRuntimeType>>

outVars == <<retval, thrown, warnings, infos>>

vars == <<envVars, pc, fileVars, yamlVars, commandVars, locationVars, outVars>>

\* ------------------------------------------------------- the code's terms

warningMessage == "WARNING: SWA configuration not found."

githubActionFolder == resolve(cwd, <<".github", sep, "workflows", sep>>)

\* fs.existsSync: a relative path is resolved against the working directory.
existsSync(path) ==
  LET abs == resolve(cwd, path)
  IN  \/ abs = githubActionFolder /\ fs.folderExists
      \/ \E n \in fs.cwdFiles : abs = resolve(cwd, n)
      \/ fs.folderExists /\ \E i \in 1..Len(fs.listing) : abs = resolve(githubActionFolder, fs.listing[i])

readdirSync(folder) == IF folder = githubActionFolder THEN fs.listing ELSE <<>>

\* fs.readFileSync followed by YAML.parse: the document the file at `path` holds.
readFileSync(path) ==
  fs.content[CHOOSE n \in FileNames : resolve(githubActionFolder, n) = path]

IsWorkflowFile(file) == Includes(file, swaMarker) /\ EndsWith(file, ".yml")

\* Mutant: the first match is taken (shift for pop).
Pop_First(files) == IF files = <<>> THEN Undef ELSE Str(Head(files))

\* Array.prototype.pop: the last element, undefined for the empty array.
Pop(files) == IF files = <<>> THEN Undef ELSE Str(Last(files))

FindWorkflowFile(folder) == Pop(SelectSeq(readdirSync(folder), IsWorkflowFile))

\* !githubActionFile || fs.existsSync(githubActionFile)
NotFound(file) == ~file.def \/ ~Truthy(file.s) \/ existsSync(file.s)

\* Mutant: the not-found branches return nothing.
NotFoundResult_Undefined(override) == Undefined

\* What the two not-found branches return.
NotFoundResult(override) == override

YamlMissing(yaml) == ~TruthyNode(yaml.top)

\* Mutant: the check of `jobs` is left out.
JobsMissing_Skipped(yaml) == FALSE

JobsMissing(yaml) == ~TruthyNode(yaml.jobs)

JobMissing(yaml) == ~TruthyNode(yaml.job)

StepsMissing(yaml) == ~TruthyNode(yaml.steps)

IsDeployStep(step) ==
  step.uses.def /\ Truthy(step.uses.s) /\ Includes(step.uses.s, deployMarker)

\* Mutant: the first deploy step that has a `with` block is taken.
FindStep_WithBlock(steps) ==
  LET ok(i) == IsDeployStep(steps[i]) /\ TruthyNode(steps[i].with.kind)
  IN  IF \E i \in 1..Len(steps) : ok(i)
      THEN [def |-> TRUE,
            step |-> steps[CHOOSE i \in 1..Len(steps) : ok(i) /\ \A j \in 1..(i - 1) : ~ok(j)]]
      ELSE IF \E i \in 1..Len(steps) : IsDeployStep(steps[i])
           THEN [def |-> TRUE, step |-> steps[CHOOSE i \in 1..Len(steps) : IsDeployStep(steps[i])]]
           ELSE NoStep

\* Array.prototype.find: the first element that passes, undefined when none does.
FindStep(steps) ==
  IF \E i \in 1..Len(steps) : IsDeployStep(steps[i])
  THEN [def |-> TRUE,
        step |-> steps[CHOOSE i \in 1..Len(steps) :
                         IsDeployStep(steps[i]) /\ \A j \in 1..(i - 1) : ~IsDeployStep(steps[j])]]
  ELSE NoStep

WithMissing(step) == ~TruthyNode(step.with.kind)

\* Mutant: the default is taken for every falsy value (field || default).
WithDefault_Falsy(field, default) == IF field.def /\ Truthy(field.s) THEN field.s ELSE default

\* A destructuring default: taken when the property is undefined.
WithDefault(field, default) == IF field.def THEN field.s ELSE default

buildDefault == <<"npm run build --if-present">>

\* Mutant: the location is not joined to the working directory.
ResolveLocation_NoCwd(location) == normalize(location)

\* path.normalize(path.join(process.cwd(), location))
ResolveLocation(location) == normalize(join(<<cwd, location>>))

\* api_location || path.sep
ApiFallback(location) == IF Truthy(location) THEN location ELSE <<sep>>

\* The spec gives the detector as an opaque classifier of the app root.
detectRuntime(appLocation) == IF appLocation \in dotnetRoots THEN "dotnet" ELSE "unknown"

\* Mutant: the runtime is ignored.
ArtifactLocation_NoRuntime(appLocation, artifactLocation, runtimeType) ==
  join(<<appLocation, artifactLocation>>)

ArtifactLocation(appLocation, artifactLocation, runtimeType) ==
  IF runtimeType = "dotnet"
  THEN join(<<appLocation, <<"bin">>, <<"Debug">>, <<"netstandard2.1">>, <<"publish">>,
              artifactLocation>>)
  ELSE join(<<appLocation, artifactLocation>>)

\* Mutant: an override applies as soon as it is defined, the empty string included.
OverrideApplies_Defined(field) == field.def

\* if (overrideConfig.<field>)
OverrideApplies(field) == field.def /\ Truthy(field.s)

\* Mutant: the override is joined to the current value, not to the working directory.
OverrideLocation_Relative(current, field) ==
  IF OverrideApplies(field) THEN normalize(join(<<current, field.s>>)) ELSE current

OverrideLocation(current, field) ==
  IF OverrideApplies(field) THEN normalize(join(<<cwd, field.s>>)) ELSE current

ErrorOf(msg) == [msg |-> msg, file |-> githubActionFile.s]

\* ---------------------------------------------------------------- Init

Init ==
  /\ \E e \in Envs :
       /\ fs = [folderExists |-> e.folderExists, listing |-> e.listing,
                cwdFiles |-> e.cwdFiles, content |-> e.content]
       /\ dotnetRoots = e.dotnet
       /\ overrideConfig = e.override
  /\ pc = "checkFolder"
  /\ githubActionFile = Undef
  /\ reads = <<>>
  /\ swaYaml = UnsetDoc
  /\ swaBuildConfig = NoStep
  /\ app_build_command = <<>>
  /\ api_build_command = <<>>
  /\ app_location = <<>>
  /\ api_location = <<>>
  /\ app_artifact_location = <<>>
  /\ detectedRuntimeType = ""
  /\ retval = Undefined
  /\ thrown = NoError
  /\ warnings = <<>>
  /\ infos = <<>>

\* -------------------------------------------------------------- actions

\* console.warn(warningMessage); return overrideConfig
WarnAndReturn ==
  /\ warnings' = Append(warnings, warningMessage)
  /\ retval' = NotFoundResult(overrideConfig)
  /\ pc' = "returned"
  /\ UNCHANGED <<thrown, infos>>

Throw(msg) ==
  /\ thrown' = ErrorOf(msg)
  /\ pc' = "threw"
  /\ UNCHANGED <<retval, warnings, infos>>

Goto(label) == pc' = label /\ UNCHANGED outVars

\* if (fs.existsSync(githubActionFolder) === false)
CheckFolder ==
  /\ pc = "checkFolder"
  /\ IF existsSync(githubActionFolder) = FALSE THEN WarnAndReturn ELSE Goto("findFile")
  /\ UNCHANGED <<envVars, fileVars, yamlVars, commandVars, locationVars>>

\* The workflow file is looked up; when found its name is resolved against
\* the folder.
FindFile ==
  /\ pc = "findFile"
  /\ LET file == FindWorkflowFile(githubActionFolder)
     IN  IF NotFound(file)
         THEN /\ githubActionFile' = file
              /\ WarnAndReturn
         ELSE /\ githubActionFile' = Str(resolve(githubActionFolder, file.s))
              /\ Goto("readFile")
  /\ UNCHANGED <<envVars, reads, yamlVars, commandVars, locationVars>>

\* fs.readFileSync(githubActionFile, "utf8") and YAML.parse. With an encoding
\* readFileSync returns a string, so the typeof check never throws.
ReadFile ==
  /\ pc = "readFile"
  /\ reads' = Append(reads, githubActionFile.s)
  /\ swaYaml' = readFileSync(githubActionFile.s)
  /\ Goto("checkYaml")
  /\ UNCHANGED <<envVars, githubActionFile, swaBuildConfig, commandVars, locationVars>>

CheckYaml ==
  /\ pc = "checkYaml"
  /\ IF YamlMissing(swaYaml) THEN Throw("could not parse the SWA workflow file")
     ELSE Goto("checkJobs")
  /\ UNCHANGED <<envVars, fileVars, yamlVars, commandVars, locationVars>>

CheckJobs ==
  /\ pc = "checkJobs"
  /\ IF JobsMissing(swaYaml) THEN Throw("missing property 'jobs'") ELSE Goto("checkJob")
  /\ UNCHANGED <<envVars, fileVars, yamlVars, commandVars, locationVars>>

CheckJob ==
  /\ pc = "checkJob"
  /\ IF JobMissing(swaYaml) THEN Throw("missing property 'jobs.build_and_deploy_job'")
     ELSE Goto("checkSteps")
  /\ UNCHANGED <<envVars, fileVars, yamlVars, commandVars, locationVars>>

CheckSteps ==
  /\ pc = "checkSteps"
  /\ IF StepsMissing(swaYaml) THEN Throw("missing property 'jobs.build_and_deploy_job.steps'")
     ELSE Goto("findStep")
  /\ UNCHANGED <<envVars, fileVars, yamlVars, commandVars, locationVars>>

FindBuildConfig ==
  /\ pc = "findStep"
  /\ swaBuildConfig' = FindStep(swaYaml.list)
  /\ IF ~swaBuildConfig'.def THEN Throw("invalid property 'jobs.build_and_deploy_job.steps[]'")
     ELSE Goto("checkWith")
  /\ UNCHANGED <<envVars, fileVars, swaYaml, commandVars, locationVars>>

CheckWith ==
  /\ pc = "checkWith"
  /\ IF WithMissing(swaBuildConfig.step)
     THEN Throw("missing property 'jobs.build_and_deploy_job.steps[].with'")
     ELSE Goto("extract")
  /\ UNCHANGED <<envVars, fileVars, yamlVars, commandVars, locationVars>>

\* The destructuring of swaBuildConfig.with, with its defaults.
ExtractConfig ==
  /\ pc = "extract"
  /\ LET with == swaBuildConfig.step.with.v
     IN  /\ app_build_command' = WithDefault(with.app_build_command, buildDefault)
         /\ api_build_command' = WithDefault(with.api_build_command, buildDefault)
         /\ app_location' = WithDefault(with.app_location, <<sep>>)
         /\ app_artifact_location' = WithDefault(with.app_artifact_location, <<sep>>)
         /\ api_location' = WithDefault(with.api_location, <<"api">>)
  /\ Goto("resolve")
  /\ UNCHANGED <<envVars, fileVars, yamlVars, detectedRuntimeType>>

ResolveLocations ==
  /\ pc = "resolve"
  /\ app_location' = ResolveLocation(app_location)
  /\ api_location' = ResolveLocation(ApiFallback(api_location))
  /\ app_artifact_location' = normalize(app_artifact_location)
  /\ Goto("detect")
  /\ UNCHANGED <<envVars, fileVars, yamlVars, commandVars, detectedRuntimeType>>

DetectRuntime ==
  /\ pc = "detect"
  /\ detectedRuntimeType' = detectRuntime(app_location)
  /\ app_artifact_location' =
       ArtifactLocation(app_location, app_artifact_location, detectedRuntimeType')
  /\ Goto("override")
  /\ UNCHANGED <<envVars, fileVars, yamlVars, commandVars, app_location, api_location>>

\* if (overrideConfig) { ... }
Override ==
  /\ pc = "override"
  /\ IF overrideConfig.def
     THEN /\ app_location' = OverrideLocation(app_location, overrideConfig.v.appLocation)
          /\ app_artifact_location' =
               OverrideLocation(app_artifact_location, overrideConfig.v.appArtifactLocation)
          /\ api_location' = OverrideLocation(api_location, overrideConfig.v.apiLocation)
     ELSE UNCHANGED <<app_location, app_artifact_location, api_location>>
  /\ Goto("return")
  /\ UNCHANGED <<envVars, fileVars, yamlVars, commandVars, detectedRuntimeType>>

Return ==
  /\ pc = "return"
  /\ retval' = Given(PartialConfig(Str(app_build_command), Str(api_build_command),
                                   Str(app_location), Str(api_location),
                                   Str(app_artifact_location)))
  /\ infos' = infos \o <<"INFO: Using SWA configuration file", "config">>
  /\ pc' = "returned"
  /\ UNCHANGED <<thrown, warnings>>
  /\ UNCHANGED <<envVars, fileVars, yamlVars, commandVars, locationVars>>

Next ==
  \/ CheckFolder
  \/ FindFile
  \/ ReadFile
  \/ CheckYaml
  \/ CheckJobs
  \/ CheckJob
  \/ CheckSteps
  \/ FindBuildConfig
  \/ CheckWith
  \/ ExtractConfig
  \/ ResolveLocations
  \/ DetectRuntime
  \/ Override
  \/ Return

Spec == Init /\ [][Next]_vars

\* ------------------------------------------------- terms of the claims

\* readConfigFile has returned a configuration built from a descriptor.
Resolved == pc = "returned" /\ reads # <<>>

\* readConfigFile has ended, by a return or by a throw.
Ended == pc \in {"returned", "threw"}

\* The positions of the listing whose name contains the marker and ends
\* with ".yml".
Matches ==
  {i \in 1..Len(fs.listing) :
     /\ swaMarker \in Range(fs.listing[i])
     /\ fs.listing[i] # <<>>
     /\ fs.listing[i][Len(fs.listing[i])] = ".yml"}

Max(S) == CHOOSE x \in S : \A y \in S : y <= x

Min(S) == CHOOSE x \in S : \A y \in S : x <= y

workflowFolder == <<sep, "proj", sep, ".github", sep, "workflows">>

\* The positions of `steps` whose `uses` contains the deploy marker.
DeploySteps ==
  {i \in 1..Len(swaYaml.list) :
     swaYaml.list[i].uses # Undef /\ deployMarker \in Range(swaYaml.list[i].uses.s)}

\* The value of a `with` field: as given when present, the default when absent.
Eff(field, default) == IF field = Undef THEN default ELSE field.s

TheWith == swaBuildConfig.step.with.v

publishSegment == <<"bin", sep, "Debug", sep, "netstandard2.1", sep, "publish">>

\* The values derived from the descriptor alone.
DerivedApp == normalize(join(<<cwd, Eff(TheWith.app_location, <<sep>>)>>))

DerivedApi ==
  LET api == Eff(TheWith.api_location, <<"api">>)
  IN  normalize(join(<<cwd, IF api = <<>> THEN <<sep>> ELSE api>>))

DerivedSuffix == normalize(Eff(TheWith.app_artifact_location, <<sep>>))

DerivedArtifact ==
  IF DerivedApp \in dotnetRoots THEN join(<<DerivedApp, publishSegment, DerivedSuffix>>)
  ELSE join(<<DerivedApp, DerivedSuffix>>)

\* The override record defines `field` with a non-empty value.
Overrides(field) ==
  overrideConfig.def /\ overrideConfig.v[field] # Undef /\ overrideConfig.v[field].s # <<>>

Overridden(field) == normalize(join(<<cwd, overrideConfig.v[field].s>>))

\* s holds part as a run of consecutive chunks.
Contains(s, part) ==
  \E i \in 0..(Len(s) - Len(part)) : SubSeq(s, i + 1, i + Len(part)) = part

AbsoluteNormalized(p) == p # <<>> /\ p[1] = sep /\ normalize(p) = p

LocationFields == {"appLocation", "apiLocation", "appArtifactLocation"}

\* ---------------------------------------------------------------- C1

\* C1 as stated: whenever the override record defines appLocation, the
\* appLocation returned is normalize(join(cwd, override.appLocation)),
\* for every descriptor content, the missing descriptor included.
C1_Original ==
  (pc = "returned" /\ overrideConfig.def /\ overrideConfig.v.appLocation # Undef)
    => retval.v.appLocation = Str(normalize(join(<<cwd, overrideConfig.v.appLocation.s>>)))

\* C1 as amended: whenever a descriptor was located and passed validation and
\* the override record defines a non-empty appLocation, the appLocation
\* returned is normalize(join(cwd, override.appLocation)), whatever the
\* descriptor's `with` block holds.
C1_AppLocationOverride ==
  (Resolved /\ Overrides("appLocation"))
    => retval.v.appLocation = Str(normalize(join(<<cwd, overrideConfig.v.appLocation.s>>)))

C1_Witness ==
  /\ Resolved
  /\ overrideConfig.v.appLocation = Str(<<"app">>)
  /\ TheWith.app_location = Str(<<"client">>)
  /\ retval.v.appLocation = Str(<<sep, "proj", sep, "app">>)

\* ---------------------------------------------------------------- C2

NoDescriptor == ~fs.folderExists \/ Matches = {}

\* C2: when the workflow folder does not exist or holds no matching file,
\* readConfigFile never throws, reads and parses nothing, and ends by
\* logging the warning once and returning the overrideConfig argument as it is.
C2_NotFound ==
  NoDescriptor
    => /\ pc \in {"checkFolder", "findFile", "returned"}
       /\ thrown = NoError
       /\ reads = <<>>
       /\ swaYaml = UnsetDoc
       /\ infos = <<>>
       /\ pc = "returned" => warnings = <<warningMessage>> /\ retval = overrideConfig
       /\ pc # "returned" => warnings = <<>>

C2_Witness ==
  /\ pc = "returned"
  /\ fs.folderExists
  /\ Len(fs.listing) = 2
  /\ Matches = {}
  /\ overrideConfig = overrideAll
  /\ retval = overrideAll

\* ---------------------------------------------------------------- C3

\* The error of the first structural check the document fails, "" when it
\* passes them all.
FirstFailure(doc) ==
  IF doc.top \in {"null", "undef"} THEN "could not parse the SWA workflow file"
  ELSE IF doc.jobs \in {"null", "undef"} THEN "missing property 'jobs'"
  ELSE IF doc.job \in {"null", "undef"} THEN "missing property 'jobs.build_and_deploy_job'"
  ELSE IF doc.steps \in {"null", "undef"} THEN "missing property 'jobs.build_and_deploy_job.steps'"
  ELSE IF DeploySteps = {} THEN "invalid property 'jobs.build_and_deploy_job.steps[]'"
  ELSE IF doc.list[Min(DeploySteps)].with.kind \in {"null", "undef"}
       THEN "missing property 'jobs.build_and_deploy_job.steps[].with'"
  ELSE ""

\* C3: for a located descriptor the error thrown is that of the first check
\* that fails, in the order parse result, jobs, jobs.build_and_deploy_job,
\* steps, a deploy step, its `with`; it names the file, is thrown whatever
\* the overrides, and nothing is returned; a descriptor that passes every
\* check throws nothing.
C3_FirstFailureThrown ==
  /\ thrown # NoError => pc = "threw" /\ reads # <<>>
  /\ (Ended /\ reads # <<>>)
       => IF FirstFailure(swaYaml) # ""
          THEN /\ pc = "threw"
               /\ thrown = [msg |-> FirstFailure(swaYaml), file |-> reads[1]]
               /\ retval = Undefined
               /\ infos = <<>>
          ELSE pc = "returned" /\ thrown = NoError

C3_Witness ==
  /\ pc = "threw"
  /\ thrown.msg = "invalid property 'jobs.build_and_deploy_job.steps[]'"
  /\ Len(swaYaml.list) = 2
  /\ overrideConfig = overrideAll
  /\ retval = Undefined

\* ---------------------------------------------------------------- C4

\* C4 as stated: in every resolution the returned appArtifactLocation is the
\* app root, the segment bin/Debug/netstandard2.1/publish when the root is
\* classified dotnet, and the artifact suffix.
C4_Original ==
  Resolved
    => /\ retval.v.appArtifactLocation = Str(DerivedArtifact)
       /\ DerivedApp \in dotnetRoots => Contains(retval.v.appArtifactLocation.s, publishSegment)

\* C4 as amended: when the override record defines no non-empty
\* appArtifactLocation, the returned appArtifactLocation is
\* join(root, bin/Debug/netstandard2.1/publish, suffix) if the detector
\* classifies root as dotnet and join(root, suffix) otherwise, where root is
\* the app location resolved from the descriptor and suffix the normalized
\* artifact location of the descriptor; the segment is then in the result
\* unless the suffix climbs out of it with "..". An override of
\* appArtifactLocation replaces the value whatever the runtime.
C4_ArtifactLocation ==
  Resolved
    => IF Overrides("appArtifactLocation")
       THEN retval.v.appArtifactLocation = Str(Overridden("appArtifactLocation"))
       ELSE /\ retval.v.appArtifactLocation = Str(DerivedArtifact)
            /\ detectedRuntimeType = (IF DerivedApp \in dotnetRoots THEN "dotnet" ELSE "unknown")
            /\ (DerivedApp \in dotnetRoots /\ ".." \notin Range(DerivedSuffix))
                 => Contains(retval.v.appArtifactLocation.s, publishSegment)
            /\ DerivedApp \notin dotnetRoots
                 => ~Contains(retval.v.appArtifactLocation.s, publishSegment)

C4_Witness ==
  /\ Resolved
  /\ detectedRuntimeType = "dotnet"
  /\ ~Overrides("appArtifactLocation")
  /\ TheWith.app_artifact_location = Undef
  /\ TheWith.app_location = Str(<<"client">>)
  /\ retval.v.appArtifactLocation = Str(<<sep, "proj", sep, "client", sep>> \o publishSegment \o <<sep>>)

\* ---------------------------------------------------------------- C5

\* The defaults hold exactly for the absent fields, and a present field is
\* used as given.
C5_Defaults ==
  Resolved
    => /\ retval.v.appBuildCommand = Str(Eff(TheWith.app_build_command, buildDefault))
       /\ retval.v.apiBuildCommand = Str(Eff(TheWith.api_build_command, buildDefault))
       /\ ~Overrides("appLocation") => retval.v.appLocation = Str(DerivedApp)
       /\ ~Overrides("apiLocation") => retval.v.apiLocation = Str(DerivedApi)
       /\ ~Overrides("appArtifactLocation") => retval.v.appArtifactLocation = Str(DerivedArtifact)

C5_ExampleCase ==
  /\ Resolved
  /\ TheWith = withClient
  /\ DerivedApp \notin dotnetRoots
  /\ ~overrideConfig.def

\* C5 as stated: the defaults hold exactly for the absent fields, and the
\* example resolves to appArtifactLocation /proj/client.
C5_Original ==
  /\ C5_Defaults
  /\ C5_ExampleCase
       => retval = Given(PartialConfig(Str(buildDefault), Str(buildDefault),
                                       Str(<<sep, "proj", sep, "client">>),
                                       Str(<<sep, "proj", sep, "server">>),
                                       Str(<<sep, "proj", sep, "client">>)))

\* C5 as amended: for each of the five fields the default is used if and
\* only if the field is absent from the `with` block and a present field is
\* used as given (an empty api_location resolving as the path separator);
\* the example resolves to appLocation /proj/client, apiLocation
\* /proj/server, both default build commands, and appArtifactLocation
\* /proj/client/, with the trailing separator of the default artifact suffix.
C5_DefaultsAndExample ==
  /\ C5_Defaults
  /\ C5_ExampleCase
       => retval = Given(PartialConfig(Str(buildDefault), Str(buildDefault),
                                       Str(<<sep, "proj", sep, "client">>),
                                       Str(<<sep, "proj", sep, "server">>),
                                       Str(<<sep, "proj", sep, "client", sep>>)))

C5_Witness == C5_ExampleCase /\ retval.v.appLocation = Str(<<sep, "proj", sep, "client">>)

\* ---------------------------------------------------------------- C6

\* C6 as stated: every record returned has appLocation, apiLocation and
\* appArtifactLocation absolute and normalized.
C6_Original ==
  (pc = "returned" /\ retval.def)
    => \A f \in LocationFields : retval.v[f].def /\ AbsoluteNormalized(retval.v[f].s)

\* C6 as amended: every record returned after a descriptor was located and
\* validated has appLocation, apiLocation and appArtifactLocation absolute
\* and normalized, for every `with` block, runtime and override record; the
\* record returned when no descriptor is found is the override record as
\* given, its paths unresolved.
C6_AbsoluteLocations ==
  /\ Resolved
       => retval.def /\ \A f \in LocationFields : retval.v[f].def /\ AbsoluteNormalized(retval.v[f].s)
  /\ (pc = "returned" /\ reads = <<>>) => retval = overrideConfig

C6_Witness ==
  /\ Resolved
  /\ TheWith.app_location = Str(<<"..", sep, "up", sep>>)
  /\ TheWith.app_artifact_location = Str(<<"..", sep, "out">>)
  /\ overrideConfig = overrideApp
  /\ retval.v.appArtifactLocation = Str(<<sep, "out">>)

\* ---------------------------------------------------------------- C7

\* C7: each of appLocation, apiLocation and appArtifactLocation returned is
\* normalize(join(cwd, value)) exactly when the override record defines it
\* with a non-empty value and keeps the value derived from the descriptor
\* otherwise; both build commands keep their derived value; the artifact
\* location that is kept is the one derived from the descriptor's app
\* location and the runtime detected there.
C7_OverrideMerge ==
  Resolved
    => /\ retval.v.appLocation =
            Str(IF Overrides("appLocation") THEN Overridden("appLocation") ELSE DerivedApp)
       /\ retval.v.apiLocation =
            Str(IF Overrides("apiLocation") THEN Overridden("apiLocation") ELSE DerivedApi)
       /\ retval.v.appArtifactLocation =
            Str(IF Overrides("appArtifactLocation") THEN Overridden("appArtifactLocation")
                ELSE DerivedArtifact)
       /\ retval.v.appBuildCommand = Str(Eff(TheWith.app_build_command, buildDefault))
       /\ retval.v.apiBuildCommand = Str(Eff(TheWith.api_build_command, buildDefault))

C7_Witness ==
  /\ Resolved
  /\ overrideConfig = overrideApp
  /\ TheWith = withClient
  /\ dotnetRoots = {<<sep, "proj", sep, "app">>}
  /\ retval.v.appLocation = Str(<<sep, "proj", sep, "app">>)
  /\ retval.v.appArtifactLocation = Str(<<sep, "proj", sep, "client", sep>>)

\* ---------------------------------------------------------------- C8

\* C8: the file chosen is the last file of the listing whose name contains
\* "azure-static-web-apps" and ends with ".yml"; at most one file is read,
\* that one, under the path of the workflow folder, and the document parsed
\* is that file's.
C8_LastMatchRead ==
  /\ Len(reads) <= 1
  /\ reads # <<>>
       => /\ Matches # {}
          /\ reads[1] = workflowFolder \o <<sep>> \o fs.listing[Max(Matches)]
          /\ githubActionFile = Str(reads[1])
          /\ swaYaml = fs.content[fs.listing[Max(Matches)]]
  /\ pc \notin {"checkFolder", "findFile", "readFile", "returned"} => Len(reads) = 1
  /\ (pc \notin {"checkFolder", "findFile"} /\ fs.folderExists /\ Matches # {})
       => githubActionFile \in {Str(fs.listing[Max(Matches)]),
                                Str(workflowFolder \o <<sep>> \o fs.listing[Max(Matches)])}

C8_Witness ==
  /\ Resolved
  /\ fs.listing = <<fileA, fileB>>
  /\ reads = <<workflowFolder \o <<sep>> \o fileB>>
  /\ TheWith = withOther

\* ---------------------------------------------------------------- C9

\* C9: whenever the workflow folder exists and holds a matching descriptor,
\* the descriptor is read and parsed and the warning path is not taken,
\* whatever files the working directory holds.
C9_FoundMeansRead ==
  (Ended /\ fs.folderExists /\ Matches # {}) => reads # <<>> /\ warnings = <<>>

\* ---------------------------------------------------------------- C10

\* C10: the configuration block is that of the first step whose `uses`
\* contains the deploy marker: when that step has no `with` the missing-with
\* error is thrown even if a later deploy step has one, steps without `uses`
\* are passed over, and otherwise the result comes from that step's block.
C10_FirstDeployStep ==
  (Ended /\ swaYaml.steps = "seq" /\ DeploySteps # {})
    => LET first == swaYaml.list[Min(DeploySteps)]
       IN  /\ swaBuildConfig = [def |-> TRUE, step |-> first]
           /\ IF first.with.kind # "map"
              THEN /\ pc = "threw"
                   /\ thrown.msg = "missing property 'jobs.build_and_deploy_job.steps[].with'"
              ELSE /\ pc = "returned"
                   /\ thrown = NoError
                   /\ ~overrideConfig.def
                        => retval.v.appLocation =
                             Str(normalize(join(<<cwd, Eff(first.with.v.app_location, <<sep>>)>>)))

C10_Witness ==
  /\ pc = "threw"
  /\ Len(swaYaml.list) = 2
  /\ DeploySteps = {1, 2}
  /\ swaYaml.list[1].with.kind = "undef"
  /\ swaYaml.list[2].with.kind = "map"
  /\ thrown.msg = "missing property 'jobs.build_and_deploy_job.steps[].with'"

====
